---- MODULE Spec2Model ----
(***************************************************************************)
(* The text prompt of src/prompts/text.rs as a state machine: the fields   *)
(* of TextPrompt, the position of TextPrompt::prompt in its loop, and one  *)
(* action per arm of the key dispatch (prompt's match and on_change's      *)
(* match), plus render, read_key failure and cleanup.                      *)
(*                                                                         *)
(* A string is a sequence of code points; a code point is a one-letter     *)
(* token standing for its grapheme-break class.  An Option is a sequence   *)
(* of length at most one: <<>> is None and <<x>> is Some(x).               *)
(***************************************************************************)
EXTENDS Naturals, Sequences, FiniteSets

VARIABLES
    default,            \* TextPrompt.default: Option<&str>
    help_message,       \* TextPrompt.help_message: Option<&str>
    page_size,          \* TextPrompt.page_size: usize
    formatter,          \* TextPrompt.formatter: StringFormatter
    validator,          \* TextPrompt.validator: Option<StringValidator>
    suggestor,          \* TextPrompt.suggestor: Option<Suggestor>
    content,            \* TextPrompt.content: String
    error,              \* TextPrompt.error: Option<String>
    suggested_options,  \* TextPrompt.suggested_options: Vec<String>
    cursor_index,       \* TextPrompt.cursor_index: usize
    pc,                 \* position of TextPrompt::prompt
    key,                \* the key of the current loop iteration (Option)
    final_answer,       \* prompt's local final_answer (Option: unset until break)
    result,             \* what prompt returned (Option)
    calls,              \* callbacks invoked since the last completed render
    cleanupCalls,       \* the renderer.cleanup calls made so far
    hist,               \* history: the characters typed since the last reset point
    nav,                \* history: the current run of equal arrow keys
    erased,             \* history: what this iteration's Backspace removed
    frame               \* the renderer calls of the render completed since the
                        \* last key was handled (empty if there is none)

vars == <<default, help_message, page_size, formatter, validator, suggestor,
          content, error, suggested_options, cursor_index, pc, key,
          final_answer, result, calls, cleanupCalls, hist, nav, erased, frame>>

config == <<default, help_message, page_size, formatter, validator, suggestor>>

(***************************************************************************)
(* Bounds.                                                                 *)
(***************************************************************************)
\* Character keys are read only while the buffer holds fewer code points.
MaxLen == 3

(***************************************************************************)
(* Options and strings.                                                    *)
(***************************************************************************)
None == <<>>

Some(x) == <<x>>

\* "a": any other character; "E": an Extended_Pictographic emoji;
\* "M": an Extend code point (skin-tone modifier, variation selector);
\* "Z": ZERO WIDTH JOINER.
CodePoints == {"a", "E", "M", "Z"}

\* The prompt message (Text::new("Question?") in the tests).
message == <<"Q", "?">>

\* Iterator<Item = &str>::collect::<String>(): the pieces joined in order.
RECURSIVE Concat(_)
Concat(ss) == IF ss = <<>> THEN <<>> ELSE Head(ss) \o Concat(Tail(ss))

IsPrefix(p, s) == Len(p) <= Len(s) /\ SubSeq(s, 1, Len(p)) = p

(***************************************************************************)
(* Extended grapheme clusters of UAX #29, as str::graphemes(true) of the   *)
(* unicode_segmentation crate finds them, for the four classes above.      *)
(***************************************************************************)
\* GB9: no break before Extend or ZWJ.  GB11: no break inside
\* ExtPict Extend* ZWJ x ExtPict.  GB999: break everywhere else.
\* NoBreak(s, i): there is no cluster boundary between s[i] and s[i+1].
NoBreak(s, i) ==
    \/ s[i + 1] \in {"M", "Z"}
    \/ /\ s[i + 1] = "E"
       /\ s[i] = "Z"
       /\ \E j \in 1..(i - 1) :
            /\ s[j] = "E"
            /\ \A k \in (j + 1)..(i - 1) : s[k] = "M"

\* The last position of the cluster of s that holds position i.
RECURSIVE ClusterEnd(_, _)
ClusterEnd(s, i) ==
    IF i >= Len(s) \/ ~NoBreak(s, i) THEN i ELSE ClusterEnd(s, i + 1)

\* The clusters of s from position `from` on, a cluster starting there.
RECURSIVE GraphemesFrom(_, _)
GraphemesFrom(s, from) ==
    IF from > Len(s) THEN <<>>
    ELSE LET e == ClusterEnd(s, from)
         IN  <<SubSeq(s, from, e)>> \o GraphemesFrom(s, e + 1)

\* s.graphemes(true)
Graphemes(s) == GraphemesFrom(s, 1)

\* usize::saturating_sub
SaturatingSub(a, b) == IF a >= b THEN a - b ELSE 0

\* Iterator::take
Take(seq, n) == SubSeq(seq, 1, IF n <= Len(seq) THEN n ELSE Len(seq))

(***************************************************************************)
(* The caller's callbacks.  Each is a pure function chosen at              *)
(* construction; the model draws it from a small set of named functions.   *)
(***************************************************************************)
\* StringValidator = fn(&str) -> Result<(), &str>; <<>> is Ok(()), <<m>> is Err(m).
\* "lenRange" has the shape of the validator of the test
\* input_correction_after_validation (an open interval of lengths);
\* "maxLen" accepts every short text, the empty one included.
Validators == {"lenRange", "maxLen"}

Validate(v, s) ==
    CASE v = "lenRange" -> IF Len(s) = 0 THEN Some("Empty")
                           ELSE IF Len(s) > 2 THEN Some("Too long")
                           ELSE None
      [] v = "maxLen"   -> IF Len(s) > 2 THEN Some("Too long") ELSE None

\* Suggestor = fn(&str) -> Vec<String>.
\* "words": the entries of a fixed dictionary that start with the input.
\* "hints": three hints for the empty input (the last one a character and
\* the five-code-point emoji of the test letters_and_enter_with_emoji), none
\* for one code point, one completion for two code points, none beyond.
Suggestors == {"words", "hints"}

Dictionary == << <<"a">>, <<"a", "a">>, <<"a", "E">>, <<"E", "M">> >>

Suggest(g, s) ==
    CASE g = "words" -> SelectSeq(Dictionary, LAMBDA w : IsPrefix(s, w))
      [] g = "hints" -> IF Len(s) = 0
                            THEN << <<"a">>, <<"a", "Z">>,
                                    <<"a", "E", "M", "Z", "E", "M">> >>
                        ELSE IF Len(s) = 2 THEN << s \o <<"a">> >>
                        ELSE <<>>

\* StringFormatter = fn(&str) -> String.
Formatters == {"plain", "quoted"}

Format(f, s) ==
    CASE f = "plain"  -> s
      [] f = "quoted" -> <<"'">> \o s \o <<"'">>

\* A callback invocation, as recorded in `calls`.
Call(fn, arg) == [fn |-> fn, arg |-> arg]

(***************************************************************************)
(* Keys (termion::event::Key).                                             *)
(***************************************************************************)
Key(kind, ch) == [kind |-> kind, ch |-> ch]

\* Key::Char(c) for a printable c, one key per code point.
CharKeys == {Key("Char", c) : c \in CodePoints}

\* Key::Char('\x17') | Key::Char('\x18')
ClearKeys == {Key("Char", "x17"), Key("Char", "x18")}

\* Key::Char('\n') | Key::Char('\r')
EnterKeys == {Key("Char", "n"), Key("Char", "r")}

\* Key::Char('\t')
TabKey == Key("Char", "t")

\* Key::Ctrl('c')
InterruptKey == Key("Ctrl", "c")

\* Keys that no arm names: Key::Left, Key::Ctrl('d'), ...
OtherKeys == {Key("Left", ""), Key("Ctrl", "d")}

(***************************************************************************)
(* TextPrompt's methods, as functions of the fields they read.             *)
(***************************************************************************)
\* Result<String, String>: Ok(val) or Err(val), with the callbacks invoked.
Ok(val, invoked) == [ok |-> TRUE, val |-> val, calls |-> invoked]

Err(val, invoked) == [ok |-> FALSE, val |-> val, calls |-> invoked]

\* Mutant of UpdateSuggestions: the index is never clamped into the new list.
UpdateSuggestionsNoClamp(g, c, opts, idx) ==
    IF g = None
        THEN [opts |-> opts, idx |-> idx, calls |-> <<>>]
        ELSE [opts  |-> Suggest(g[1], c),
              idx   |-> idx,
              calls |-> <<Call("suggestor", c)>>]

\* Mutant of UpdateSuggestions: every refresh selects the first suggestion.
UpdateSuggestionsReset(g, c, opts, idx) ==
    IF g = None
        THEN [opts |-> opts, idx |-> idx, calls |-> <<>>]
        ELSE [opts  |-> Suggest(g[1], c),
              idx   |-> 0,
              calls |-> <<Call("suggestor", c)>>]

\* update_suggestions: the new (suggested_options, cursor_index) for the
\* buffer c, and the suggestor call made.
UpdateSuggestions(g, c, opts, idx) ==
    IF g = None
        THEN [opts |-> opts, idx |-> idx, calls |-> <<>>]
        ELSE LET new == Suggest(g[1], c)
             IN  [opts  |-> new,
                  idx   |-> IF Len(new) > 0 /\ Len(new) <= idx
                                THEN SaturatingSub(Len(new), 1)
                                ELSE idx,
                  calls |-> <<Call("suggestor", c)>>]

\* move_cursor_up: checked_sub(1), or len.checked_sub(1), or 0.
MoveCursorUp(idx, len) ==
    IF idx >= 1 THEN idx - 1
    ELSE IF len >= 1 THEN len - 1
    ELSE 0

\* Mutant of MoveCursorDown: the selection stops at the last suggestion.
MoveCursorDownNoWrap(idx, len) ==
    IF idx + 1 >= len THEN idx ELSE idx + 1

\* move_cursor_down (saturating_add never saturates: idx is at most the
\* length of a suggestion list).
MoveCursorDown(idx, len) ==
    IF idx + 1 >= len THEN 0 ELSE idx + 1

\* Mutant of Push: the character is put in front of the buffer.
PushFront(c, ch) == <<ch>> \o c

\* Key::Char(c) arm of on_change: String::push.
Push(c, ch) == Append(c, ch)

\* Mutant of Backspace: String::pop, the last code point alone.
BackspacePop(c) == SubSeq(c, 1, SaturatingSub(Len(c), 1))

\* Key::Backspace arm of on_change: all clusters but the last, collected.
Backspace(c) ==
    LET len     == Len(Graphemes(c))
        new_len == SaturatingSub(len, 1)
    IN  Concat(Take(Graphemes(c), new_len))

\* Mutant of SelectedSuggestion: the first suggestion, whatever is selected.
SelectedFirst(opts, idx) ==
    IF Len(opts) >= 1 THEN Some(opts[1]) ELSE None

\* use_select_option's lookup: suggested_options.get(cursor_index).
SelectedSuggestion(opts, idx) ==
    IF idx + 1 <= Len(opts) THEN Some(opts[idx + 1]) ELSE None

\* Mutant of GetFinalAnswer: the validator runs before the default is taken.
GetFinalAnswerValidateFirst(c, d, v) ==
    IF v # None /\ Validate(v[1], c) # None
        THEN Err(Validate(v[1], c)[1], <<Call("validator", c)>>)
    ELSE IF c = <<>> /\ d # None
        THEN Ok(d[1], IF v # None THEN <<Call("validator", c)>> ELSE <<>>)
    ELSE Ok(c, IF v # None THEN <<Call("validator", c)>> ELSE <<>>)

\* Mutant of GetFinalAnswer: the validator's verdict is dropped.
GetFinalAnswerUnchecked(c, d, v) ==
    IF c = <<>> /\ d # None
        THEN Ok(d[1], <<>>)
        ELSE Ok(c, IF v # None THEN <<Call("validator", c)>> ELSE <<>>)

\* get_final_answer
GetFinalAnswer(c, d, v) ==
    IF c = <<>> /\ d # None
        THEN Ok(d[1], <<>>)
    ELSE IF v # None /\ Validate(v[1], c) # None
        THEN Err(Validate(v[1], c)[1], <<Call("validator", c)>>)
    ELSE Ok(c, IF v # None THEN <<Call("validator", c)>> ELSE <<>>)

(***************************************************************************)
(* What prompt returns.                                                    *)
(***************************************************************************)
Answer(s) == [tag |-> "Ok", val |-> s]

\* bail!("Input interrupted by ctrl-c")
Interrupted == [tag |-> "Err", val |-> <<"Input interrupted by ctrl-c">>]

\* a std::io::Error passed on by `?`
IoError == [tag |-> "Err", val |-> <<"io">>]

(***************************************************************************)
(* History variables.                                                      *)
(***************************************************************************)
NoHist == [pure |-> FALSE, from |-> "none", typed |-> <<>>]

\* A character key: one more typed character while the run is pure.
HistChar(ch) ==
    IF hist.pure THEN [hist EXCEPT !.typed = Append(@, ch)] ELSE NoHist

\* A Backspace read on an empty buffer starts a run of typed text afresh.
HistBackspace ==
    IF content = <<>>
        THEN [pure |-> TRUE, from |-> "excess", typed |-> <<>>]
        ELSE NoHist

NoNav == [dir |-> "none", n |-> 0, start |-> 0]

\* One more arrow key in direction dir; a run ends after a full cycle.
NavStep(dir) ==
    IF nav.dir = dir /\ nav.n < Len(suggested_options)
        THEN [nav EXCEPT !.n = @ + 1]
        ELSE [dir |-> dir, n |-> 1, start |-> cursor_index]

(***************************************************************************)
(* TextPrompt::render: the renderer calls of one frame.                    *)
(***************************************************************************)
\* A call of a Renderer method with its arguments.
RendererCall(op, args) == [op |-> op, args |-> args]

DEFAULT_HELP_MESSAGE == "↑↓ to move, tab to auto-complete, enter to submit"

\* OptionAnswer::new(i, val) for every suggestion, indexed from 0.
Choices(opts) == [i \in 1..Len(opts) |-> [index |-> i - 1, value |-> opts[i]]]

Min(a, b) == IF a <= b THEN a ELSE b

\* utils::paginate(page_size, choices, sel): the (page, relative selection)
\* pairs its contract allows.  The page is a run of min(page_size, len)
\* consecutive choices that holds the selected one, and the relative index
\* is the selected one's offset in it; no choices give the empty page and 0.
\* For a selection beyond a non-empty list the contract only promises
\* a page and no panic: any page, with relative index 0.
Paginate(size, choices, sel) ==
    LET len   == Len(choices)
        n     == Min(size, len)
        first == {s \in 0..(len - n) : sel < len => (s <= sel /\ sel < s + n)}
    IN  {[opts |-> SubSeq(choices, s + 1, s + n),
          sel  |-> IF sel < len THEN sel - s ELSE 0] : s \in first}

\* Mutant of PrintError: the stored error is not shown.
PrintErrorNever(err) == <<>>

\* if let Some(err) = &self.error { renderer.print_error_message(err)?; }
PrintError(err) ==
    IF err # None THEN <<RendererCall("print_error_message", <<err[1]>>)>> ELSE <<>>

\* Mutant of PrintOptions: the relative selection is compared with the
\* choice's index in the whole list.
PrintOptionsAbsolute(paginated_opts, rel_sel) ==
    [i \in 1..Len(paginated_opts) |->
        RendererCall("print_option",
                     <<rel_sel = paginated_opts[i].index, paginated_opts[i].value>>)]

\* for (idx, opt) in paginated_opts.iter().enumerate() {
\*     renderer.print_option(rel_sel == idx, &opt.value)?; }
PrintOptions(paginated_opts, rel_sel) ==
    [i \in 1..Len(paginated_opts) |->
        RendererCall("print_option", <<rel_sel = i - 1, paginated_opts[i].value>>)]

\* Mutant of PrintHelp: no help text at all without choices.
PrintHelpOnlyWithChoices(help, choices) ==
    IF choices = <<>> THEN <<>>
    ELSE IF help # None THEN <<RendererCall("print_help", <<help[1]>>)>>
    ELSE <<RendererCall("print_help", <<DEFAULT_HELP_MESSAGE>>)>>

\* The help text: the configured one, else the default one if there are choices.
PrintHelp(help, choices) ==
    IF help # None THEN <<RendererCall("print_help", <<help[1]>>)>>
    ELSE IF choices # <<>> THEN <<RendererCall("print_help", <<DEFAULT_HELP_MESSAGE>>)>>
    ELSE <<>>

\* The calls of a render that completes, paginate having returned `page`.
RenderCalls(page) ==
    <<RendererCall("reset_prompt", <<>>)>>
    \o PrintError(error)
    \o <<RendererCall("print_prompt", <<message, default, Some(content)>>)>>
    \o PrintOptions(page.opts, page.sel)
    \o PrintHelp(help_message, Choices(suggested_options))
    \o <<RendererCall("flush", <<>>)>>

(***************************************************************************)
(* Construction: Text::new and the with_* builders, then                   *)
(* TextPrompt::from.                                                       *)
(***************************************************************************)
\* The text given to with_default; both validators reject it.
DefaultValue == <<"d", "f", "t">>

\* The page sizes given: one smaller than the longer suggestion lists, and
\* one that shows every list whole.
PageSizes == {2, 7}

Init ==
    /\ default \in {None, Some(DefaultValue)}
    /\ help_message \in {None, Some("help")}
    /\ page_size \in PageSizes
    /\ formatter \in Formatters
    /\ validator \in {None} \cup {Some(v) : v \in Validators}
    /\ suggestor \in {None} \cup {Some(g) : g \in Suggestors}
    /\ content = <<>>
    /\ error = None
    /\ cursor_index = 0
    /\ suggested_options =
            IF suggestor = None THEN <<>> ELSE Suggest(suggestor[1], <<>>)
    /\ calls = IF suggestor = None THEN <<>> ELSE <<Call("suggestor", <<>>)>>
    /\ pc = "render"
    /\ key = None
    /\ final_answer = None
    /\ result = None
    /\ cleanupCalls = <<>>
    /\ hist = [pure |-> TRUE, from |-> "start", typed |-> <<>>]
    /\ nav = NoNav
    /\ erased = <<>>
    /\ frame = <<>>

(***************************************************************************)
(* TextPrompt::prompt, one loop iteration in two steps: render, then       *)
(* read_key and the arm of the match the key selects.                      *)
(***************************************************************************)
\* self.render(renderer)? succeeds; the previous iteration's key is gone.
Render ==
    /\ pc = "render"
    /\ pc' = "read_key"
    /\ key' = None
    /\ calls' = <<>>
    /\ UNCHANGED <<config, content, error, suggested_options, cursor_index,
                   final_answer, result, cleanupCalls, hist, nav>>
    /\ erased' = <<>>
    /\ \E page \in Paginate(page_size, Choices(suggested_options), cursor_index) :
          frame' = RenderCalls(page)

\* Mutant of RenderFail: the error of render is dropped and the loop goes on.
RenderFailIgnored ==
    /\ pc = "render"
    /\ pc' = "read_key"
    /\ key' = None
    /\ calls' = <<>>
    /\ erased' = <<>>
    /\ frame' = <<>>
    /\ UNCHANGED <<config, content, error, suggested_options, cursor_index,
                   final_answer, result, cleanupCalls, hist, nav>>

\* A renderer call of self.render fails: `?` returns the error.
RenderFail ==
    /\ pc = "render"
    /\ pc' = "returned"
    /\ key' = None
    /\ calls' = <<>>
    /\ result' = Some(IoError)
    /\ UNCHANGED <<config, content, error, suggested_options, cursor_index,
                   final_answer, cleanupCalls, hist, nav>>
    /\ erased' = <<>>
    /\ frame' = <<>>

\* renderer.read_key()? fails.
ReadKeyFail ==
    /\ pc = "read_key"
    /\ pc' = "returned"
    /\ result' = Some(IoError)
    /\ UNCHANGED <<config, content, error, suggested_options, cursor_index,
                   key, final_answer, calls, cleanupCalls, hist, nav>>
    /\ UNCHANGED erased
    /\ UNCHANGED frame

\* renderer.read_key() returns k.
ReadKey(k) ==
    /\ pc = "read_key"
    /\ key' = Some(k)

\* Mutant of Dirty: the suggestions are refreshed before the buffer changes.
DirtyStale(c) ==
    LET u == UpdateSuggestions(suggestor, content, suggested_options, cursor_index)
    IN  /\ content' = c
        /\ suggested_options' = u.opts
        /\ cursor_index' = u.idx
        /\ calls' = u.calls

\* The buffer becomes c and on_change's dirty flag is set:
\* update_suggestions runs on the new buffer.
Dirty(c) ==
    LET u == UpdateSuggestions(suggestor, c, suggested_options, cursor_index)
    IN  /\ content' = c
        /\ suggested_options' = u.opts
        /\ cursor_index' = u.idx
        /\ calls' = u.calls

\* Mutant of Interrupt: Ctrl-C leaves the loop as a commit of the buffer does.
InterruptBreaks ==
    /\ ReadKey(InterruptKey)
    /\ pc' = "cleanup"
    /\ final_answer' = Some(content)
    /\ hist' = NoHist
    /\ nav' = NoNav
    /\ erased' = <<>>
    /\ UNCHANGED <<config, content, error, suggested_options, cursor_index,
                   result, calls, cleanupCalls>>
    /\ frame' = <<>>

\* Key::Ctrl('c') => bail!(...)
Interrupt ==
    /\ ReadKey(InterruptKey)
    /\ pc' = "returned"
    /\ result' = Some(Interrupted)
    /\ hist' = NoHist
    /\ nav' = NoNav
    /\ UNCHANGED <<config, content, error, suggested_options, cursor_index,
                   final_answer, calls, cleanupCalls>>
    /\ erased' = <<>>
    /\ frame' = <<>>

\* Key::Char('\t') => self.use_select_option()
Tab ==
    /\ ReadKey(TabKey)
    /\ LET selected_suggestion == SelectedSuggestion(suggested_options, cursor_index)
       IN  IF selected_suggestion # None
               THEN Dirty(selected_suggestion[1])
               ELSE UNCHANGED <<content, suggested_options, cursor_index, calls>>
    /\ pc' = "render"
    /\ hist' = NoHist
    /\ nav' = NoNav
    /\ UNCHANGED <<config, error, final_answer, result, cleanupCalls>>
    /\ erased' = <<>>
    /\ frame' = <<>>

\* Mutant of OnValidationError: the rejected buffer is cleared.
OnValidationErrorClearing(err) ==
    /\ error' = Some(err)
    /\ pc' = "render"
    /\ content' = <<>>
    /\ UNCHANGED <<suggested_options, cursor_index, final_answer>>

\* Mutant of OnValidationError: the next key is read without a new render.
OnValidationErrorNoRender(err) ==
    /\ error' = Some(err)
    /\ pc' = "read_key"
    /\ UNCHANGED <<content, suggested_options, cursor_index, final_answer>>

\* Err(err) => self.error = Some(err)
OnValidationError(err) ==
    /\ error' = Some(err)
    /\ pc' = "render"
    /\ UNCHANGED <<content, suggested_options, cursor_index, final_answer>>

\* Ok(answer) => { final_answer = answer; break; }
OnAnswer(answer) ==
    /\ final_answer' = Some(answer)
    /\ pc' = "cleanup"
    /\ UNCHANGED <<content, suggested_options, cursor_index, error>>

\* Key::Char('\n') | Key::Char('\r') => match self.get_final_answer()
Enter ==
    /\ \E k \in EnterKeys : ReadKey(k)
    /\ LET r == GetFinalAnswer(content, default, validator)
       IN  /\ IF r.ok THEN OnAnswer(r.val) ELSE OnValidationError(r.val)
           /\ calls' = r.calls
    /\ hist' = IF pc' = "cleanup" THEN hist ELSE NoHist
    /\ nav' = NoNav
    /\ UNCHANGED <<config, result, cleanupCalls>>
    /\ erased' = <<>>
    /\ frame' = <<>>

\* on_change, Key::Backspace
OnBackspace ==
    /\ ReadKey(Key("Backspace", ""))
    /\ Dirty(Backspace(content))
    /\ pc' = "render"
    /\ hist' = HistBackspace
    /\ nav' = NoNav
    /\ UNCHANGED <<config, error, final_answer, result, cleanupCalls>>
    /\ erased' = SubSeq(content, Len(content') + 1, Len(content))
    /\ frame' = <<>>

\* Mutant of OnUp: the arrow marks the buffer dirty.
OnUpDirty ==
    /\ ReadKey(Key("Up", ""))
    /\ LET u == UpdateSuggestions(suggestor, content, suggested_options,
                                  MoveCursorUp(cursor_index, Len(suggested_options)))
       IN  /\ suggested_options' = u.opts
           /\ cursor_index' = u.idx
           /\ calls' = u.calls
    /\ pc' = "render"
    /\ hist' = NoHist
    /\ nav' = NavStep("Up")
    /\ erased' = <<>>
    /\ frame' = <<>>
    /\ UNCHANGED <<config, content, error, final_answer, result, cleanupCalls>>

\* on_change, Key::Up
OnUp ==
    /\ ReadKey(Key("Up", ""))
    /\ cursor_index' = MoveCursorUp(cursor_index, Len(suggested_options))
    /\ pc' = "render"
    /\ hist' = NoHist
    /\ nav' = NavStep("Up")
    /\ UNCHANGED <<config, content, error, suggested_options, final_answer,
                   result, calls, cleanupCalls>>
    /\ erased' = <<>>
    /\ frame' = <<>>

\* on_change, Key::Down
OnDown ==
    /\ ReadKey(Key("Down", ""))
    /\ cursor_index' = MoveCursorDown(cursor_index, Len(suggested_options))
    /\ pc' = "render"
    /\ hist' = NoHist
    /\ nav' = NavStep("Down")
    /\ UNCHANGED <<config, content, error, suggested_options, final_answer,
                   result, calls, cleanupCalls>>
    /\ erased' = <<>>
    /\ frame' = <<>>

\* on_change, Key::Char('\x17') | Key::Char('\x18'): content.clear()
OnClear ==
    /\ \E k \in ClearKeys : ReadKey(k)
    /\ Dirty(<<>>)
    /\ pc' = "render"
    /\ hist' = NoHist
    /\ nav' = NoNav
    /\ UNCHANGED <<config, error, final_answer, result, cleanupCalls>>
    /\ erased' = <<>>
    /\ frame' = <<>>

\* on_change, Key::Char(c): content.push(c)
OnChar ==
    /\ Len(content) < MaxLen
    /\ \E k \in CharKeys :
          /\ ReadKey(k)
          /\ Dirty(Push(content, k.ch))
          /\ hist' = HistChar(k.ch)
    /\ pc' = "render"
    /\ nav' = NoNav
    /\ UNCHANGED <<config, error, final_answer, result, cleanupCalls>>
    /\ erased' = <<>>
    /\ frame' = <<>>

\* Mutant of OnOther: an unnamed key marks the buffer dirty.
OnOtherDirty ==
    /\ \E k \in OtherKeys : ReadKey(k)
    /\ Dirty(content)
    /\ pc' = "render"
    /\ hist' = NoHist
    /\ nav' = NoNav
    /\ erased' = <<>>
    /\ frame' = <<>>
    /\ UNCHANGED <<config, error, final_answer, result, cleanupCalls>>

\* on_change, _ => {}
OnOther ==
    /\ \E k \in OtherKeys : ReadKey(k)
    /\ pc' = "render"
    /\ hist' = NoHist
    /\ nav' = NoNav
    /\ UNCHANGED <<config, content, error, suggested_options, cursor_index,
                   final_answer, result, calls, cleanupCalls>>
    /\ erased' = <<>>
    /\ frame' = <<>>

\* renderer.cleanup(&self.message, (self.formatter)(&final_answer))?
\* Mutant of CleanupCall: the final answer is passed unformatted.
CleanupCallRaw == [message |-> message, answer |-> final_answer[1]]

\* The call made, with its arguments.
CleanupCall == [message |-> message, answer |-> Format(formatter, final_answer[1])]

\* cleanup succeeds: Ok(final_answer)
Cleanup ==
    /\ pc = "cleanup"
    /\ calls' = Append(calls, Call("formatter", final_answer[1]))
    /\ cleanupCalls' = Append(cleanupCalls, CleanupCall)
    /\ result' = Some(Answer(final_answer[1]))
    /\ pc' = "returned"
    /\ UNCHANGED <<config, content, error, suggested_options, cursor_index,
                   key, final_answer, hist, nav>>
    /\ UNCHANGED erased
    /\ UNCHANGED frame

\* cleanup fails: `?` returns the error.
CleanupFail ==
    /\ pc = "cleanup"
    /\ calls' = Append(calls, Call("formatter", final_answer[1]))
    /\ cleanupCalls' = Append(cleanupCalls, CleanupCall)
    /\ result' = Some(IoError)
    /\ pc' = "returned"
    /\ UNCHANGED <<config, content, error, suggested_options, cursor_index,
                   key, final_answer, hist, nav>>
    /\ UNCHANGED erased
    /\ UNCHANGED frame

Next ==
    \/ Render
    \/ RenderFail
    \/ ReadKeyFail
    \/ Interrupt
    \/ Tab
    \/ Enter
    \/ OnBackspace
    \/ OnUp
    \/ OnDown
    \/ OnClear
    \/ OnChar
    \/ OnOther
    \/ Cleanup
    \/ CleanupFail

Spec == Init /\ [][Next]_vars

(***************************************************************************)
(* The claims.                                                             *)
(***************************************************************************)
\* This step reads an Enter key.
ReadsEnter == pc = "read_key" /\ key' \in {Some(k) : k \in EnterKeys}

\* This step reads the key k.
Reads(k) == pc = "read_key" /\ key' = Some(k)

\* The configured validator, if any, accepts s.
Accepts(s) == validator = None \/ Validate(validator[1], s) = None

\* Only character keys have been read since the session started.
OnlyTypedSinceStart == hist.pure /\ hist.from = "start"

\* C1, as amended: when character keys alone are read from the start of the
\* session and then Enter, and the configured validator (if any) accepts the
\* typed text, and the typed text is not empty or no default is configured,
\* the session commits with exactly the typed characters in the order typed.
C1_TypedTextCommits ==
    [][(/\ ReadsEnter
        /\ OnlyTypedSinceStart
        /\ Accepts(hist.typed)
        /\ (hist.typed # <<>> \/ default = None))
       => (pc' = "cleanup" /\ final_answer' = Some(hist.typed))]_vars

\* C1 witness: a three-code-point emoji sequence, typed and committed.
C1_Witness ==
    /\ pc = "cleanup"
    /\ OnlyTypedSinceStart
    /\ hist.typed = <<"E", "Z", "E">>
    /\ final_answer = Some(<<"E", "Z", "E">>)

\* C1 as claimed: for every sequence of character keys, the empty one
\* included, followed by Enter, where no validator rejects the text, the
\* session commits with the concatenation of the typed characters.
C1_AsClaimed ==
    [][(ReadsEnter /\ OnlyTypedSinceStart /\ Accepts(hist.typed))
       => (pc' = "cleanup" /\ final_answer' = Some(hist.typed))]_vars

\* A cluster of s starts at position i.
IsClusterStart(s, i) == i = 1 \/ ~NoBreak(s, i - 1)

\* s from position i to its end is exactly one whole cluster.
IsLastCluster(s, i) ==
    /\ i \in 1..Len(s)
    /\ IsClusterStart(s, i)
    /\ \A j \in i..(Len(s) - 1) : NoBreak(s, j)

\* C2: a Backspace on a non-empty buffer removes exactly its last whole
\* grapheme cluster and leaves what precedes it; a Backspace on an empty
\* buffer leaves it empty; and when Backspace was read on an empty buffer,
\* then text was typed, then Enter read, a session that commits commits
\* exactly the typed text (and does commit if the validator accepts it).
C2_BackspaceRemovesCluster ==
    [][/\ Reads(Key("Backspace", "")) =>
            IF content = <<>>
                THEN content' = <<>>
                ELSE \E i \in 1..Len(content) :
                        /\ IsLastCluster(content, i)
                        /\ content' = SubSeq(content, 1, i - 1)
       /\ (ReadsEnter /\ hist.pure /\ hist.from = "excess" /\ hist.typed # <<>>) =>
            /\ pc' = "cleanup" => final_answer' = Some(hist.typed)
            /\ Accepts(hist.typed) => pc' = "cleanup"]_vars

\* C2 witness: a Backspace has removed the five code points of an emoji
\* sequence (emoji, modifier, joiner, emoji, variation selector) and left
\* the character before it.
C2_Witness ==
    /\ pc = "render"
    /\ key = Some(Key("Backspace", ""))
    /\ erased = <<"E", "M", "Z", "E", "M">>
    /\ content = <<"a">>

\* No validator call is recorded in the sequence cs.
NoValidatorCall(cs) == \A i \in 1..Len(cs) : cs[i].fn # "validator"

\* C3: Enter read with an empty buffer and a default configured commits
\* with the default verbatim and invokes no validator, whatever the
\* validator would say and whatever error is stored (which stays as it is).
C3_DefaultBypassesValidator ==
    [][(ReadsEnter /\ content = <<>> /\ default # None)
       => /\ pc' = "cleanup"
          /\ final_answer' = Some(default[1])
          /\ NoValidatorCall(calls')
          /\ error' = error]_vars

\* C3 witness: the default committed from an empty buffer although the
\* validator rejects both the empty text and the default, with an error of
\* an earlier rejected commit still stored.
C3_Witness ==
    /\ pc = "cleanup"
    /\ content = <<>>
    /\ default # None
    /\ final_answer = default
    /\ validator = Some("lenRange")
    /\ Validate("lenRange", <<>>) # None
    /\ Validate("lenRange", default[1]) # None
    /\ error # None

\* This step reads Enter and the validator is run on the buffer and rejects it.
ReadsRejectedEnter ==
    /\ ReadsEnter
    /\ ~(content = <<>> /\ default # None)
    /\ ~Accepts(content)

\* C4, as amended: a rejected Enter leaves the session editing with buffer,
\* suggestions and selection unchanged, stores the validator's message and
\* returns nothing; and an Enter read after a rejection, with a buffer the
\* validator accepts, commits with that buffer, or with the default if that
\* buffer is empty and a default is configured.
C4_RejectionKeepsEditing ==
    [][/\ ReadsRejectedEnter =>
            /\ pc' = "render"
            /\ UNCHANGED <<content, suggested_options, cursor_index>>
            /\ error' = Validate(validator[1], content)
            /\ result' = None
            /\ final_answer' = None
       /\ (ReadsEnter /\ error # None /\ Accepts(content)) =>
            /\ pc' = "cleanup"
            /\ final_answer' = IF content = <<>> /\ default # None
                                  THEN default
                                  ELSE Some(content)]_vars

\* C4 witness: a rejection was stored, the buffer was then edited to a text
\* the validator accepts, and Enter has committed it.
C4_Witness ==
    /\ pc = "cleanup"
    /\ error = Some("Too long")
    /\ validator = Some("lenRange")
    /\ content = <<"a", "a">>
    /\ final_answer = Some(content)

\* C4 as claimed: after a rejection, an Enter read with a buffer the
\* validator accepts commits with that buffer, whatever it is.
C4_AsClaimed ==
    [][/\ ReadsRejectedEnter =>
            /\ pc' = "render"
            /\ UNCHANGED <<content, suggested_options, cursor_index>>
            /\ error' = Validate(validator[1], content)
            /\ result' = None
            /\ final_answer' = None
       /\ (ReadsEnter /\ error # None /\ Accepts(content)) =>
            /\ pc' = "cleanup"
            /\ final_answer' = Some(content)]_vars

\* The validator was called on s, as recorded in cs.
ValidatorCalledOn(cs, s) == \E i \in 1..Len(cs) : cs[i] = Call("validator", s)

\* C5: a step that commits reads Enter and sets the final answer either to
\* the default, the buffer being empty, or else to the exact buffer, which
\* the configured validator (if any) was called on and accepted; and a
\* session returns an answer only after such a commit, and returns it.
C5_CommitsDefaultOrValidBuffer ==
    [][/\ (pc = "read_key" /\ pc' = "cleanup") =>
            /\ ReadsEnter
            /\ content' = content
            /\ \/ /\ content = <<>>
                  /\ default # None
                  /\ final_answer' = default
               \/ /\ ~(content = <<>> /\ default # None)
                  /\ final_answer' = Some(content)
                  /\ Accepts(content)
                  /\ validator # None => ValidatorCalledOn(calls', content)
       /\ (result = None /\ result' # None /\ result'[1].tag = "Ok") =>
            /\ pc = "cleanup"
            /\ result'[1].val = final_answer[1]]_vars

\* C5 witness: a non-empty buffer that the validator accepts has committed
\* as itself, not as the configured default.
C5_Witness ==
    /\ pc = "cleanup"
    /\ default # None
    /\ validator # None
    /\ content = <<"E", "M">>
    /\ final_answer = Some(content)
    /\ final_answer # default

\* C6: an interrupt key can be read in every state that waits for a key,
\* and reading it ends the session at once with the interruption error: no
\* answer is set or returned, no callback is invoked, cleanup is not
\* called, the editing state is left as it was; and nothing happens after
\* the session has returned, so no further key is read.
C6_InterruptEndsSession ==
    [][/\ pc = "read_key" => ENABLED Interrupt
       /\ Reads(InterruptKey) =>
            /\ pc' = "returned"
            /\ result' = Some(Interrupted)
            /\ final_answer' = None
            /\ calls' = <<>>
            /\ cleanupCalls' = <<>>
            /\ UNCHANGED <<content, error, suggested_options, cursor_index>>
       /\ pc # "returned"]_vars

\* C6 witness: a session interrupted with text in the buffer, suggestions
\* shown, a suggestion other than the first selected and an error stored.
C6_Witness ==
    /\ pc = "returned"
    /\ result = Some(Interrupted)
    /\ key = Some(InterruptKey)
    /\ content # <<>>
    /\ suggested_options # <<>>
    /\ cursor_index > 0
    /\ error # None

\* C7: with a non-empty suggestion list, arrow-down moves the selection
\* from i to i+1 and from the last index to 0, arrow-up from i > 0 to i-1
\* and from 0 to the last index; and after as many consecutive arrow-downs
\* (or arrow-ups) as the list has entries the selection is back where the
\* run started.
C7_ArrowsCycle ==
    [][LET len == Len(suggested_options)
       IN  /\ (Reads(Key("Down", "")) /\ len > 0) =>
                cursor_index' = IF cursor_index = len - 1 THEN 0
                                ELSE cursor_index + 1
           /\ (Reads(Key("Up", "")) /\ len > 0) =>
                cursor_index' = IF cursor_index > 0 THEN cursor_index - 1
                                ELSE len - 1
           /\ (len > 0 /\ nav'.dir # "none" /\ nav'.n = len) =>
                cursor_index' = nav'.start]_vars

\* C7 witness: a run of four arrow-downs over four suggestions, started at
\* index 2, has wrapped and come back to index 2.
C7_Witness ==
    /\ pc = "render"
    /\ key = Some(Key("Down", ""))
    /\ Len(suggested_options) = 4
    /\ nav = [dir |-> "Down", n |-> 4, start |-> 2]
    /\ cursor_index = 2

\* C8 as claimed: whenever the suggestion list is empty, an arrow-up or
\* arrow-down key finds selection_index at 0 and leaves it at 0.
C8_ArrowsNoOpOnEmptyList ==
    [][(/\ pc = "read_key"
        /\ key' \in {Some(Key("Up", "")), Some(Key("Down", ""))}
        /\ suggested_options = <<>>)
       => (cursor_index = 0 /\ cursor_index' = 0)]_vars

\* reconcile_selection of the specification: the index clamped into a
\* non-empty list, and left alone otherwise.
Reconciled(idx, new) ==
    IF new # <<>> /\ idx >= Len(new) THEN Len(new) - 1 ELSE idx

\* C9: Tab read with a non-empty suggestion list sets the buffer to the
\* suggestion that selection_index designated before the key, the
\* suggestion list to the suggestor's result for that new buffer (the
\* suggestor being called on it), and selection_index to the old index
\* reconciled against the new list.
C9_TabTakesSelection ==
    [][(Reads(TabKey) /\ suggested_options # <<>>)
       => /\ cursor_index < Len(suggested_options)
          /\ content' = suggested_options[cursor_index + 1]
          /\ suggestor # None
          /\ suggested_options' = Suggest(suggestor[1], content')
          /\ calls' = <<Call("suggestor", content')>>
          /\ cursor_index' = Reconciled(cursor_index, suggested_options')
          /\ pc' = "render"]_vars

\* C9 witness: Tab has taken the second of three hints, the suggestions were
\* derived afresh from it and the selection was clamped into the new list.
C9_Witness ==
    /\ pc = "render"
    /\ key = Some(TabKey)
    /\ suggestor = Some("hints")
    /\ content = <<"a", "Z">>
    /\ calls = <<Call("suggestor", <<"a", "Z">>)>>
    /\ suggested_options = << <<"a", "Z", "a">> >>
    /\ cursor_index = 0
    /\ nav = NoNav

\* The number of formatter calls recorded in cs.
RECURSIVE FormatterCalls(_)
FormatterCalls(cs) ==
    IF cs = <<>> THEN 0
    ELSE (IF Head(cs).fn = "formatter" THEN 1 ELSE 0) + FormatterCalls(Tail(cs))

\* C10: a session that has returned an answer has called cleanup exactly
\* once, with the prompt message and the formatter's result for the final
\* answer, the formatter having been called once, on the final answer,
\* after the committing Enter; cleanup has not been called while the session
\* renders or waits for a key (so not after a failed validation either, and
\* never before a render), nor in a session that was interrupted.
C10_CleanupOnceOnSuccess ==
    /\ (result # None /\ result[1].tag = "Ok") =>
            /\ pc = "returned"
            /\ key \in {Some(k) : k \in EnterKeys}
            /\ final_answer # None
            /\ result[1].val = final_answer[1]
            /\ cleanupCalls =
                   <<[message |-> message,
                      answer  |-> Format(formatter, final_answer[1])]>>
            /\ FormatterCalls(calls) = 1
            /\ calls[Len(calls)] = Call("formatter", final_answer[1])
    /\ pc \in {"render", "read_key", "cleanup"} => cleanupCalls = <<>>
    /\ result = Some(Interrupted) => cleanupCalls = <<>>
    /\ Len(cleanupCalls) <= 1

\* C10 witness: a session that stored a validation error, later committed
\* and returned its answer, cleanup having shown the quoted answer.
C10_Witness ==
    /\ result = Some(Answer(<<"a">>))
    /\ error # None
    /\ formatter = "quoted"
    /\ cleanupCalls = <<[message |-> message, answer |-> <<"'", "a", "'">>]>>

\* The calls of frame f to the renderer method op.
CallsOf(f, op) == SelectSeq(f, LAMBDA c : c.op = op)

\* This step is a render that completes.
Renders == pc = "render" /\ pc' = "read_key"

\* C11: the stored error is none at the start; a step changes it only if it
\* reads an Enter whose buffer the validator rejects, and then to the
\* validator's message, so no edit, arrow, tab or ignored key clears it; and
\* a render that completes shows the error banner, once and right after
\* reset_prompt, exactly when an error is stored, with the stored message.
C11_ErrorPersistsAndIsShown ==
    [][/\ (hist.from = "start" /\ hist.pure) => error = None
       /\ error' # error =>
            /\ ReadsRejectedEnter
            /\ error' = Validate(validator[1], content)
            /\ error' # None
       /\ Renders =>
            /\ error' = error
            /\ CallsOf(frame', "print_error_message") =
                   IF error = None THEN <<>>
                   ELSE <<RendererCall("print_error_message", <<error[1]>>)>>
            /\ error # None => frame'[2].op = "print_error_message"]_vars

\* C11 witness: the error of a rejected empty buffer is still stored and
\* shown after text was typed, waiting for the next key.
C11_Witness ==
    /\ pc = "read_key"
    /\ error = Some("Empty")
    /\ content = <<"a", "E">>
    /\ frame[2] = RendererCall("print_error_message", <<"Empty">>)

\* C12: in every state that renders, and in every state that waits for a
\* key, the IO failure can happen; a step from a rendering state that does
\* not complete a frame, and a step from a waiting state that reads no key,
\* ends the session with the IO error: no answer is set, no key is read, no
\* callback runs, cleanup is not called, and nothing happens afterwards.
C12_IoErrorEndsSession ==
    [][/\ pc = "render" => ENABLED RenderFail
       /\ pc = "read_key" => ENABLED ReadKeyFail
       /\ ((pc = "render" /\ ~(pc' = "read_key" /\ frame' # <<>>))
           \/ (pc = "read_key" /\ key' = None)) =>
            /\ pc' = "returned"
            /\ result' = Some(IoError)
            /\ final_answer' = None
            /\ key' = None
            /\ calls' = <<>>
            /\ cleanupCalls' = <<>>
       /\ pc # "returned"]_vars

\* C12 witness: a render failed in the middle of a session, with text in
\* the buffer and an error stored; the session returned the IO error.
C12_Witness ==
    /\ pc = "returned"
    /\ result = Some(IoError)
    /\ key = None
    /\ frame = <<>>
    /\ final_answer = None
    /\ content # <<>>
    /\ error # None

\* C13: whenever the engine renders or waits for a key, the suggestion list
\* is the suggestor's result for the current buffer, and the empty list if
\* no suggestor is configured.
C13_SuggestionsFollowBuffer ==
    pc \in {"render", "read_key"} =>
        suggested_options =
            IF suggestor = None THEN <<>> ELSE Suggest(suggestor[1], content)

\* C13 witness: after a Backspace the list is the one of the shortened buffer.
C13_Witness ==
    /\ pc = "render"
    /\ key = Some(Key("Backspace", ""))
    /\ suggestor = Some("words")
    /\ erased = <<"E">>
    /\ content = <<"a">>
    /\ suggested_options = << <<"a">>, <<"a", "a">>, <<"a", "E">> >>

\* C14: whenever the suggestion list is not empty, selection_index is less
\* than its length.
C14_SelectionInsideList ==
    suggested_options # <<>> => cursor_index < Len(suggested_options)

\* C14 witness: a typed character has narrowed the dictionary to three
\* suggestions, and the last of them is selected.
C14_Witness ==
    /\ pc = "render"
    /\ key = Some(Key("Char", "a"))
    /\ suggestor = Some("words")
    /\ content = <<"a">>
    /\ Len(suggested_options) = 3
    /\ cursor_index = 2

\* This step refreshes the suggestions: it reads a key and calls the suggestor.
Refreshes ==
    /\ pc = "read_key"
    /\ key' # None
    /\ calls' # <<>>
    /\ calls'[1].fn = "suggestor"

\* C15: a step that refreshes the suggestions sets selection_index to the
\* last index of the new list if that list is not empty and the old index
\* is at or beyond its length, and leaves it unchanged otherwise.
C15_RefreshClampsOnly ==
    [][Refreshes =>
          cursor_index' =
              IF suggested_options' # <<>> /\ cursor_index >= Len(suggested_options')
                  THEN Len(suggested_options') - 1
                  ELSE cursor_index]_vars

\* C15 witness: a refresh has emptied the list and left index 2 selected.
C15_Witness ==
    /\ pc = "render"
    /\ calls # <<>>
    /\ calls[1].fn = "suggestor"
    /\ suggested_options = <<>>
    /\ cursor_index = 2

\* C16: a step that reads arrow-up or arrow-down leaves the buffer, the
\* suggestion list and the stored error as they are, calls neither the
\* suggestor nor the validator, and goes on to render.
C16_ArrowsChangeIndexOnly ==
    [][(Reads(Key("Up", "")) \/ Reads(Key("Down", "")))
       => /\ UNCHANGED <<content, suggested_options, error>>
          /\ calls' = <<>>
          /\ pc' = "render"]_vars

\* C16 witness: an arrow-up has moved the selection, with text in the
\* buffer, suggestions shown and an error stored.
C16_Witness ==
    /\ pc = "render"
    /\ key = Some(Key("Up", ""))
    /\ calls = <<>>
    /\ content # <<>>
    /\ error # None
    /\ Len(suggested_options) = 3
    /\ cursor_index = 1

\* f is one full frame showing the buffer c: reset_prompt first, flush
\* last, each once, and one print_prompt, with c.
IsFullFrame(f, c) ==
    /\ f # <<>>
    /\ f[1].op = "reset_prompt"
    /\ f[Len(f)].op = "flush"
    /\ Len(CallsOf(f, "reset_prompt")) = 1
    /\ Len(CallsOf(f, "flush")) = 1
    /\ CallsOf(f, "print_prompt") =
           <<RendererCall("print_prompt", <<message, default, Some(c)>>)>>

\* C17: a step from a rendering state either completes one full frame of
\* the unchanged state and waits for a key, or ends the session; a state
\* that waits for a key holds exactly one full frame, rendered since the
\* last key; a step that reads a key uses that frame up and goes on to a
\* new render, to the commit or to the end of the session; after the
\* commit comes only the return, with the editing state untouched; and
\* nothing happens after the session has returned.
C17_RenderAndReadAlternate ==
    [][/\ pc = "render" =>
            /\ frame = <<>>
            /\ pc' \in {"read_key", "returned"}
            /\ pc' = "read_key" =>
                  /\ IsFullFrame(frame', content)
                  /\ UNCHANGED <<content, error, suggested_options, cursor_index>>
       /\ pc = "read_key" =>
            /\ IsFullFrame(frame, content)
            /\ pc' \in {"render", "cleanup", "returned"}
            /\ key' # None => frame' = <<>>
            /\ pc' \in {"render", "cleanup"} => key' # None
       /\ pc = "cleanup" =>
            /\ pc' = "returned"
            /\ UNCHANGED <<content, error, suggested_options, cursor_index,
                           key, frame, final_answer>>
       /\ pc # "returned"]_vars

\* C17 witness: the key read after a failed commit waits on a full frame
\* of the rejected buffer.
C17_Witness ==
    /\ pc = "read_key"
    /\ key = None
    /\ error = Some("Too long")
    /\ content = <<"a", "a", "a">>
    /\ IsFullFrame(frame, content)

\* C18: in the frame a key is awaited on, print_option was called once per
\* item of a page of min(page_size, number of suggestions) consecutive
\* suggestions, in their order, the page holds the suggestion at
\* selection_index, and the call showing it, and no other, is marked
\* selected; with no suggestions no option is printed.
C18_OnePageOneSelected ==
    pc = "read_key" =>
        LET po == CallsOf(frame, "print_option")
            n  == Len(suggested_options)
        IN  /\ Len(po) = IF page_size <= n THEN page_size ELSE n
            /\ n > 0 =>
                  \E s \in 0..(n - Len(po)) :
                     /\ s + 1 <= cursor_index + 1
                     /\ cursor_index + 1 <= s + Len(po)
                     /\ \A i \in 1..Len(po) :
                           /\ po[i].args[2] = suggested_options[s + i]
                           /\ po[i].args[1] = (s + i = cursor_index + 1)

\* C18 witness: four suggestions, a page of two, the last one selected: the
\* frame shows the last two and marks the second of them.
C18_Witness ==
    /\ pc = "read_key"
    /\ page_size = 2
    /\ Len(suggested_options) = 4
    /\ cursor_index = 3
    /\ CallsOf(frame, "print_option") =
           <<RendererCall("print_option", <<FALSE, <<"a", "E">>>>),
             RendererCall("print_option", <<TRUE, <<"E", "M">>>>)>>

\* C19: the frame a key is awaited on prints help text at most once: the
\* configured help message if one is configured, else the built-in default
\* if the suggestion list is not empty, else none.
C19_HelpText ==
    pc = "read_key" =>
        CallsOf(frame, "print_help") =
            IF help_message # None
                THEN <<RendererCall("print_help", <<help_message[1]>>)>>
            ELSE IF suggested_options # <<>>
                THEN <<RendererCall("print_help", <<DEFAULT_HELP_MESSAGE>>)>>
            ELSE <<>>

\* C19 witness: a configured help message is printed although there is no
\* suggestion.
C19_Witness ==
    /\ pc = "read_key"
    /\ help_message = Some("help")
    /\ suggested_options = <<>>
    /\ CallsOf(frame, "print_help") = <<RendererCall("print_help", <<"help">>)>>

\* C20: a step that reads a key no arm names, or Tab while the suggestion
\* list is empty, leaves buffer, suggestion list, selection_index and stored
\* error as they are, calls no callback and goes on to render.
C20_IgnoredKeysChangeNothing ==
    [][(\/ \E k \in OtherKeys : Reads(k)
        \/ (Reads(TabKey) /\ suggested_options = <<>>))
       => /\ UNCHANGED <<content, suggested_options, cursor_index, error>>
          /\ calls' = <<>>
          /\ pc' = "render"
          /\ result' = None]_vars

\* C20 witness: Tab was read with text in the buffer, no suggestion and a
\* stale selection index, and nothing was called.
C20_Witness ==
    /\ pc = "render"
    /\ key = Some(TabKey)
    /\ content # <<>>
    /\ suggested_options = <<>>
    /\ cursor_index > 0
    /\ suggestor # None
    /\ calls = <<>>

====
